---- MODULE Spec2Model ----
(***************************************************************************)
(* Model of the PRTG API client of netbox-prtg (netbox_prtg/prtg_client.py) *)
(* the transport (_make_request), the cached resolver                      *)
(* (find_device_by_hostname), the sensor reader and the per-device summary *)
(* (get_device_sensors, get_device_summary) and the provisioner            *)
(* (find_group_by_name, get_or_create_import_group, create_device,         *)
(* export_device_from_netbox), running against a PRTG server and the       *)
(* Django cache.                                                           *)
(*                                                                         *)
(* Strings are sequences of one-character strings, so that str.lower(),    *)
(* the "in" substring test and the f-string cache keys are computed, not   *)
(* assumed.  Python dicts are records; dict.get(k, default) is Get.        *)
(***************************************************************************)
EXTENDS Integers, Sequences, FiniteSets, TLC

VARIABLES now, cache, srvDevices, srvGroups, last, prev, running

vars == <<now, cache, srvDevices, srvGroups, last, prev, running>>

(***************************************************************************)
(* Bounds of the model.                                                    *)
(***************************************************************************)
MaxTime == 2
CacheTimeout == 2
MaxDevices == 2
MaxSensors == 2
MaxFaults == 2
MaxGroups == 2

(***************************************************************************)
(* Strings.                                                                *)
(***************************************************************************)
UpperChars == <<"A", "B", "D", "E", "G", "I", "K", "L", "N", "O", "P", "R", "S", "U", "W">>
LowerChars == <<"a", "b", "d", "e", "g", "i", "k", "l", "n", "o", "p", "r", "s", "u", "w">>

LowerChar(ch) ==
    IF \E i \in 1..Len(UpperChars) : UpperChars[i] = ch
    THEN LowerChars[CHOOSE i \in 1..Len(UpperChars) : UpperChars[i] = ch]
    ELSE ch

\* str.lower()
Lower(s) == [i \in 1..Len(s) |-> LowerChar(s[i])]

\* Python's `sub in s`
Contains(sub, s) ==
    \E i \in 0..(Len(s) - Len(sub)) : SubSeq(s, i + 1, i + Len(sub)) = sub

Digits == <<"0", "1", "2", "3", "4", "5", "6", "7", "8", "9">>

RECURSIVE IntToStr(_)
\* str(n) for n >= 0
IntToStr(n) ==
    IF n < 10 THEN <<Digits[n + 1]>>
    ELSE IntToStr(n \div 10) \o <<Digits[(n % 10) + 1]>>

\* dict.get(key, default)
Get(d, key, default) == IF key \in DOMAIN d THEN d[key] ELSE default

\* d[key] = value on a dict
Put(d, key, value) == (key :> value) @@ d

(***************************************************************************)
(* Configuration of the client (PRTGClient.__init__).                      *)
(***************************************************************************)
base_url == <<"https://prtg.example.com">>
api_token == <<"token">>
cache_timeout == CacheTimeout

None == [none |-> TRUE]
IsNone(x) == "none" \in DOMAIN x

\* Python truthiness of an Optional[dict]
Truthy(x) == ~IsNone(x) /\ DOMAIN x # {}

(***************************************************************************)
(* The world an operation runs in: the Django cache, the PRTG server's     *)
(* tables, the clock, the outcomes of the requests it is going to issue    *)
(* (plan, in order; a request beyond the plan answers 200), and the        *)
(* requests, their outcomes and the log records it has produced; ops are   *)
(* the writes and deletions of the cache, each with the number of requests *)
(* issued before it.                                                       *)
(***************************************************************************)
World(c, devs, groups, t, plan) ==
    [cache |-> c, devices |-> devs, groups |-> groups, now |-> t,
     plan |-> plan, reqs |-> <<>>, outs |-> <<>>, logs |-> <<>>, ops |-> <<>>]

CacheOp(w, op, key) == [op |-> op, key |-> key, at |-> Len(w.reqs)]

\* what a call does: return a value, or raise an exception
Return(value, w) == [ret |-> value, w |-> w, exc |-> ""]
Raise(kind, w) == [ret |-> None, w |-> w, exc |-> kind]
Raised(r) == r.exc # ""

Log(w, level, msg) == [w EXCEPT !.logs = Append(@, [level |-> level, msg |-> msg])]

\* a cache that serves an entry for ever
cache_get_Stale(w, key) ==
    IF key \in DOMAIN w.cache THEN <<w.cache[key].value>> ELSE <<>>

\* django.core.cache: cache.get(key) is None for a missing or expired entry
cache_get(w, key) ==
    IF key \in DOMAIN w.cache /\ w.now < w.cache[key].expires
    THEN <<w.cache[key].value>>
    ELSE <<>>

\* cache.set(key, value): the timeout is left to the cache's default
cache_set_DefaultTimeout(w, key, value, timeout) ==
    [w EXCEPT !.cache = (key :> [value |-> value, expires |-> w.now + 300]) @@ @,
              !.ops = Append(@, CacheOp(w, "set", key))]

\* cache.set(key, value, timeout)
cache_set(w, key, value, timeout) ==
    [w EXCEPT !.cache = (key :> [value |-> value, expires |-> w.now + timeout]) @@ @,
              !.ops = Append(@, CacheOp(w, "set", key))]

\* a delete that removes nothing
cache_delete_Noop(w, key) == w

\* a delete that empties the cache
cache_delete_Flush(w, key) ==
    [w EXCEPT !.cache = << >>,
              !.ops = Append(@, CacheOp(w, "delete", key))]

\* cache.delete(key)
cache_delete(w, key) ==
    [w EXCEPT !.cache = [k \in (DOMAIN @) \ {key} |-> @[k]],
              !.ops = Append(@, CacheOp(w, "delete", key))]

\* the exceptions response.json() raises; a request that does not parse
\* the body does not see them
JsonKinds == {"JSONDecodeError", "ValueError"}

\* code: the HTTP status; sensors: the rows a sensor query answers with;
\* text: the body of a creation call; applied: whether the server carried
\* out a creation call (a read timeout can follow the creation)
Outcome(kind, code, applied) ==
    [kind |-> kind, code |-> code, sensors |-> <<>>, text |-> <<>>, applied |-> applied]
Ok == Outcome("ok", 200, TRUE)
Exc(kind) == Outcome(kind, IF kind \in JsonKinds THEN 200 ELSE 0, kind \in JsonKinds)
HttpError(code) == Outcome("HTTPError", code, FALSE)

\* the outcome of the request the world issues next
NextOut(w) == IF w.plan = <<>> THEN Ok ELSE Head(w.plan)

\* the world after issuing a request
Issue(w, url, params) ==
    [w EXCEPT !.reqs = Append(@, [url |-> url, params |-> params]),
              !.outs = Append(@, NextOut(w)),
              !.plan = IF @ = <<>> THEN <<>> ELSE Tail(@)]

(***************************************************************************)
(* The PRTG server.  A table query answers from the server's tables in     *)
(* table order; @sub(x) is a case-insensitive substring filter, a plain    *)
(* filter value an exact one.  The sensors of a device are an input of the *)
(* query's outcome.                                                        *)
(***************************************************************************)
IsSub(f) == Len(f) >= 2 /\ f[1] = "@sub(" /\ f[Len(f)] = ")"
SubArg(f) == SubSeq(f, 2, Len(f) - 1)

Matches(f, value) ==
    IF f = <<>> THEN TRUE
    ELSE IF IsSub(f) THEN Contains(Lower(SubArg(f)), Lower(value))
    ELSE Lower(f) = Lower(value)

RECURSIVE FilterRows(_, _)
FilterRows(rows, params) ==
    IF rows = <<>> THEN <<>>
    ELSE LET r == Head(rows)
             keep == /\ Matches(Get(params, "filter_name", <<>>), Get(r, "name", <<>>))
                     /\ Matches(Get(params, "filter_host", <<>>), Get(r, "host", <<>>))
         IN (IF keep THEN <<r>> ELSE <<>>) \o FilterRows(Tail(rows), params)

ServerJson(w, endpoint, params, out) ==
    IF endpoint = "/api/status.json" THEN [Version |-> <<"24.1">>]
    ELSE IF params.content = <<"devices">> THEN [devices |-> FilterRows(w.devices, params)]
    ELSE IF params.content = <<"groups">> THEN [groups |-> FilterRows(w.groups, params)]
    ELSE [sensors |-> out.sensors]

(***************************************************************************)
(* Transport.  An outcome names what requests.get, raise_for_status and    *)
(* response.json() do: "ok", or the exception raised, with the classes it  *)
(* is an instance of.                                                      *)
(***************************************************************************)
ExcClasses(kind) ==
    CASE kind = "ReadTimeout" -> {"Timeout", "RequestException"}
      [] kind = "ConnectTimeout" -> {"ConnectionError", "Timeout", "RequestException"}
      [] kind = "ConnectionError" -> {"ConnectionError", "RequestException"}
      [] kind = "HTTPError" -> {"HTTPError", "RequestException"}
      [] kind = "TooManyRedirects" -> {"RequestException"}
      [] kind = "JSONDecodeError" -> {"RequestException", "ValueError"}
      [] kind = "ValueError" -> {"ValueError"}
      [] OTHER -> {}

\* str(e) of the exception of an outcome
ExcStr(out) ==
    IF out.kind = "HTTPError" THEN IntToStr(out.code) \o <<" Error">> ELSE <<out.kind>>

urljoin(base, endpoint) == base \o <<endpoint>>

\* the try block of _make_request without the handler of ValueError
handle_response_NoValueError(w, w1, endpoint, params, out, classes) ==
    IF out.kind = "ok"
    THEN Return(ServerJson(w, endpoint, params, out), w1)
    ELSE IF "Timeout" \in classes
    THEN Return([error |-> <<"Request timed out">>],
                Log(w1, "error", <<"PRTG API request timed out: ", endpoint>>))
    ELSE IF "ConnectionError" \in classes
    THEN Return([error |-> <<"Connection failed: ">> \o ExcStr(out)],
                Log(w1, "error", <<"PRTG API connection error: ">> \o ExcStr(out)))
    ELSE IF "HTTPError" \in classes
    THEN IF out.code = 401
         THEN Return([error |-> <<"Authentication failed - check API token">>],
                     Log(w1, "error", <<"PRTG API authentication failed - check API token">>))
         ELSE Return([error |-> <<"HTTP error: ">> \o ExcStr(out)],
                     Log(w1, "error", <<"PRTG API HTTP error: ">> \o ExcStr(out)))
    ELSE IF "RequestException" \in classes
    THEN Return([error |-> ExcStr(out)],
                Log(w1, "error", <<"PRTG API request failed: ">> \o ExcStr(out)))
    ELSE Raise(out.kind, w1)

\* the try block of _make_request: w1 is the world after the request, out
\* its outcome, classes the classes of the exception raised
handle_response(w, w1, endpoint, params, out, classes) ==
    IF out.kind = "ok"
    THEN Return(ServerJson(w, endpoint, params, out), w1)
    ELSE IF "Timeout" \in classes
    THEN Return([error |-> <<"Request timed out">>],
                Log(w1, "error", <<"PRTG API request timed out: ", endpoint>>))
    ELSE IF "ConnectionError" \in classes
    THEN Return([error |-> <<"Connection failed: ">> \o ExcStr(out)],
                Log(w1, "error", <<"PRTG API connection error: ">> \o ExcStr(out)))
    ELSE IF "HTTPError" \in classes
    THEN IF out.code = 401
         THEN Return([error |-> <<"Authentication failed - check API token">>],
                     Log(w1, "error", <<"PRTG API authentication failed - check API token">>))
         ELSE Return([error |-> <<"HTTP error: ">> \o ExcStr(out)],
                     Log(w1, "error", <<"PRTG API HTTP error: ">> \o ExcStr(out)))
    ELSE IF "RequestException" \in classes
    THEN Return([error |-> ExcStr(out)],
                Log(w1, "error", <<"PRTG API request failed: ">> \o ExcStr(out)))
    ELSE IF "ValueError" \in classes
    THEN Return([error |-> <<"Invalid response from PRTG">>],
                Log(w1, "error", <<"PRTG API invalid JSON response: ">> \o ExcStr(out)))
    ELSE Raise(out.kind, w1)

\* the query parameters left as the caller gave them
WithToken_Forgotten(params) == params

\* the query parameters with the API token
WithToken(params) == Put(params, "apitoken", api_token)

\* _make_request without the handler of requests.Timeout
make_request_NoTimeoutHandler(w, endpoint, params) ==
    handle_response(w, Issue(w, urljoin(base_url, endpoint), WithToken(params)),
                    endpoint, WithToken(params), NextOut(w),
                    ExcClasses(NextOut(w).kind) \ {"Timeout"})

\* _make_request(endpoint, params)
make_request(w, endpoint, params) ==
    handle_response(w, Issue(w, urljoin(base_url, endpoint), WithToken(params)),
                    endpoint, WithToken(params), NextOut(w), ExcClasses(NextOut(w).kind))

\* result.get("Version", result.get("version", "Unknown"))
Version(result) == Get(result, "Version", Get(result, "version", <<"Unknown">>))

\* test_connection() after its request, r
connection_result(r) ==
    IF Raised(r) THEN r
    ELSE IF "error" \in DOMAIN r.ret THEN r
    ELSE Return([success |-> TRUE, version |-> Version(r.ret),
                 message |-> <<"Connected to PRTG ">> \o Version(r.ret)], r.w)

test_connection(w) == connection_result(make_request(w, "/api/status.json", << >>))

(***************************************************************************)
(* Resolver.                                                               *)
(***************************************************************************)
RECURSIVE BestMatch_NameOnly(_, _, _)
\* BestMatch without the branch of the exact host match
BestMatch_NameOnly(devices, device, hostname_lower) ==
    IF devices = <<>> THEN device
    ELSE IF Lower(Get(Head(devices), "name", <<>>)) = hostname_lower THEN Head(devices)
    ELSE IF IsNone(device) THEN BestMatch_NameOnly(Tail(devices), Head(devices), hostname_lower)
    ELSE BestMatch_NameOnly(Tail(devices), device, hostname_lower)

RECURSIVE BestMatch(_, _, _)
\* the loop "for d in devices" of find_device_by_hostname, from the
\* candidates not yet visited and the value of `device` so far
BestMatch(devices, device, hostname_lower) ==
    IF devices = <<>> THEN device
    ELSE IF Lower(Get(Head(devices), "name", <<>>)) = hostname_lower THEN Head(devices)
    ELSE IF Lower(Get(Head(devices), "host", <<>>)) = hostname_lower THEN Head(devices)
    ELSE IF IsNone(device) THEN BestMatch(Tail(devices), Head(devices), hostname_lower)
    ELSE BestMatch(Tail(devices), device, hostname_lower)

\* the parameters of the query by name
NameParams(hostname) ==
    [content |-> <<"devices">>,
     columns |-> <<"objid,name,host,status,message,group">>,
     filter_name |-> <<"@sub(">> \o hostname \o <<")">>,
     count |-> <<"50">>]

\* the parameters of the query by host
HostParams(hostname) ==
    Put(Put(NameParams(hostname), "filter_name", <<>>),
        "filter_host", <<"@sub(">> \o hostname \o <<")">>)

Searched(failed, devices, w) == Return([failed |-> failed, devices |-> devices], w)

\* the search after the query by host, r2
after_host_query(r2) ==
    IF Raised(r2) THEN r2
    ELSE IF "error" \notin DOMAIN r2.ret
    THEN Searched(FALSE, Get(r2.ret, "devices", <<>>), r2.w)
    ELSE Searched(FALSE, <<>>, r2.w)

\* after_name_query without the check for an error of the query by name
after_name_query_IgnoresError(r1, hostname) ==
    IF Raised(r1) THEN r1
    ELSE IF Get(r1.ret, "devices", <<>>) # <<>>
    THEN Searched(FALSE, Get(r1.ret, "devices", <<>>), r1.w)
    ELSE after_host_query(make_request(r1.w, "/api/table.json", HostParams(hostname)))

\* after_name_query without the query by host
after_name_query_NoRetry(r1, hostname) ==
    IF Raised(r1) THEN r1
    ELSE IF "error" \in DOMAIN r1.ret
    THEN Searched(TRUE, <<>>,
                  Log(r1.w, "warning", <<"PRTG device search failed: ">> \o r1.ret.error))
    ELSE Searched(FALSE, Get(r1.ret, "devices", <<>>), r1.w)

\* the search after the query by name, r1; failed is set when that query
\* fails
after_name_query(r1, hostname) ==
    IF Raised(r1) THEN r1
    ELSE IF "error" \in DOMAIN r1.ret
    THEN Searched(TRUE, <<>>,
                  Log(r1.w, "warning", <<"PRTG device search failed: ">> \o r1.ret.error))
    ELSE IF Get(r1.ret, "devices", <<>>) # <<>>
    THEN Searched(FALSE, Get(r1.ret, "devices", <<>>), r1.w)
    ELSE after_host_query(make_request(r1.w, "/api/table.json", HostParams(hostname)))

\* the search of find_device_by_hostname: the query by name and, when it
\* answers no device, the query by host
search_devices(w, hostname) ==
    after_name_query(make_request(w, "/api/table.json", NameParams(hostname)), hostname)

\* "if device:": the device is marked not cached, stored and returned
store_device(w, cache_key, device) ==
    IF Truthy(device)
    THEN Return(Put(device, "cached", FALSE),
                cache_set(w, cache_key, Put(device, "cached", FALSE), cache_timeout))
    ELSE Return(None, w)

\* find_device_by_hostname after its search, s
select_device(s, hostname) ==
    IF Raised(s) THEN s
    ELSE IF s.ret.failed THEN Return(None, s.w)
    ELSE IF s.ret.devices = <<>>
    THEN Return(None, Log(s.w, "debug", <<"Device '">> \o hostname \o <<"' not found in PRTG">>))
    ELSE store_device(s.w, <<"prtg_device_">> \o Lower(hostname),
                      BestMatch(s.ret.devices, None, Lower(hostname)))

\* find_device_by_hostname from what the cache holds, cached
from_cache_or_search(w, hostname, cached) ==
    IF cached # <<>> THEN Return(Put(cached[1], "cached", TRUE), w)
    ELSE select_device(search_devices(w, hostname), hostname)

find_device_by_hostname(w, hostname) ==
    from_cache_or_search(w, hostname, cache_get(w, <<"prtg_device_">> \o Lower(hostname)))

(***************************************************************************)
(* Sensor reader and per-device summary.                                   *)
(***************************************************************************)
SensorParams(device_id) ==
    [content |-> <<"sensors">>,
     columns |-> <<"objid,name,status,lastvalue,message,priority,type">>,
     filter_parentid |-> IntToStr(device_id),
     count |-> <<"*">>]

\* sensors_result with the failed query raised to the caller
sensors_result_Raises(r, cache_key, device_id) ==
    IF Raised(r) THEN r
    ELSE IF "error" \in DOMAIN r.ret THEN Raise("PRTGError", r.w)
    ELSE Return(Get(r.ret, "sensors", <<>>),
                cache_set(r.w, cache_key, Get(r.ret, "sensors", <<>>), cache_timeout))

\* sensors_result that stores the empty list of a failed query
sensors_result_CachesFailure(r, cache_key, device_id) ==
    IF Raised(r) THEN r
    ELSE IF "error" \in DOMAIN r.ret
    THEN Return(<<>>, cache_set(r.w, cache_key, <<>>, cache_timeout))
    ELSE Return(Get(r.ret, "sensors", <<>>),
                cache_set(r.w, cache_key, Get(r.ret, "sensors", <<>>), cache_timeout))

\* get_device_sensors after its request, r
sensors_result(r, cache_key, device_id) ==
    IF Raised(r) THEN r
    ELSE IF "error" \in DOMAIN r.ret
    THEN Return(<<>>, Log(r.w, "warning",
             <<"Failed to get sensors for device ">> \o IntToStr(device_id)
                 \o <<": ">> \o r.ret.error))
    ELSE Return(Get(r.ret, "sensors", <<>>),
                cache_set(r.w, cache_key, Get(r.ret, "sensors", <<>>), cache_timeout))

\* get_device_sensors that queries the server whatever the cache holds
cached_or_query_Always(w, cache_key, device_id, cached) ==
    sensors_result(make_request(w, "/api/table.json", SensorParams(device_id)),
                   cache_key, device_id)

\* get_device_sensors from what the cache holds, cached
cached_or_query(w, cache_key, device_id, cached) ==
    IF cached # <<>> THEN Return(cached[1], w)
    ELSE sensors_result(make_request(w, "/api/table.json", SensorParams(device_id)),
                        cache_key, device_id)

get_device_sensors(w, device_id) ==
    cached_or_query(w, <<"prtg_sensors_">> \o IntToStr(device_id), device_id,
                    cache_get(w, <<"prtg_sensors_">> \o IntToStr(device_id)))

Keyword(bucket) ==
    CASE bucket = "up" -> <<"u", "p">>
      [] bucket = "warning" -> <<"w", "a", "r", "n", "i", "n", "g">>
      [] bucket = "down" -> <<"d", "o", "w", "n">>
      [] bucket = "paused" -> <<"p", "a", "u", "s", "e", "d">>
      [] bucket = "unusual" -> <<"u", "n", "u", "s", "u", "a", "l">>

\* classify with the paused codes cut down to 7
classify_Paused7(status, status_raw) ==
    IF Contains(Keyword("up"), status) \/ status_raw = 3 THEN "up"
    ELSE IF Contains(Keyword("warning"), status) \/ status_raw = 4 THEN "warning"
    ELSE IF Contains(Keyword("down"), status) \/ status_raw = 5 THEN "down"
    ELSE IF Contains(Keyword("paused"), status) \/ status_raw = 7 THEN "paused"
    ELSE IF Contains(Keyword("unusual"), status) \/ status_raw = 10 THEN "unusual"
    ELSE "unknown"

\* the if/elif chain of get_device_summary on the lowercased status and
\* the status code of a sensor
classify(status, status_raw) ==
    IF Contains(Keyword("up"), status) \/ status_raw = 3 THEN "up"
    ELSE IF Contains(Keyword("warning"), status) \/ status_raw = 4 THEN "warning"
    ELSE IF Contains(Keyword("down"), status) \/ status_raw = 5 THEN "down"
    ELSE IF Contains(Keyword("paused"), status) \/ status_raw \in {7, 8, 9, 11, 12}
    THEN "paused"
    ELSE IF Contains(Keyword("unusual"), status) \/ status_raw = 10 THEN "unusual"
    ELSE "unknown"

\* the bucket of a sensor
BucketOf(sensor) ==
    classify(Lower(Get(sensor, "status", <<>>)), Get(sensor, "status_raw", 0))

\* summary[bucket] += 1
Count(summary, bucket) == [summary EXCEPT ![bucket] = @ + 1]

RECURSIVE Tally_NoElse(_, _)
\* Tally without the final else: a sensor of no bucket is not counted
Tally_NoElse(sensors, summary) ==
    IF sensors = <<>> THEN summary
    ELSE IF BucketOf(Head(sensors)) = "unknown" THEN Tally_NoElse(Tail(sensors), summary)
    ELSE Tally_NoElse(Tail(sensors), Count(summary, BucketOf(Head(sensors))))

RECURSIVE Tally(_, _)
\* the loop "for sensor in sensors" of get_device_summary
Tally(sensors, summary) ==
    IF sensors = <<>> THEN summary
    ELSE Tally(Tail(sensors), Count(summary, BucketOf(Head(sensors))))

\* get_device_summary from the result of get_device_sensors, r
summarize(r) ==
    IF Raised(r) THEN r
    ELSE Return(Tally(r.ret, [up |-> 0, warning |-> 0, down |-> 0, paused |-> 0,
                              unusual |-> 0, unknown |-> 0, total |-> Len(r.ret)]),
                r.w)

get_device_summary(w, device_id) == summarize(get_device_sensors(w, device_id))

\* get_device_url(device_id)
get_device_url(device_id) == base_url \o <<"/device.htm?id=">> \o IntToStr(device_id)

(***************************************************************************)
(* Provisioner.                                                            *)
(***************************************************************************)
RECURSIVE FirstNamed(_, _)
\* the loop "for g in groups" of find_group_by_name
FirstNamed(groups, name) ==
    IF groups = <<>> THEN None
    ELSE IF Lower(Get(Head(groups), "name", <<>>)) = Lower(name) THEN Head(groups)
    ELSE FirstNamed(Tail(groups), name)

\* find_group_by_name after its request, r
group_result(r, name) ==
    IF Raised(r) THEN r
    ELSE IF "error" \in DOMAIN r.ret
    THEN Return(None, Log(r.w, "warning", <<"PRTG group search failed: ">> \o r.ret.error))
    ELSE Return(FirstNamed(Get(r.ret, "groups", <<>>), name), r.w)

find_group_by_name(w, name) ==
    group_result(make_request(w, "/api/table.json",
                              [content |-> <<"groups">>,
                               columns |-> <<"objid,name,group">>,
                               filter_name |-> name,
                               count |-> <<"50">>]),
                 name)

\* the object id the server gives the next object it creates
NewId(w) == 11 + Len(w.devices) + Len(w.groups)

\* the server's tables after a creation call with outcome out
Created(w, out, params) ==
    IF ~out.applied THEN w
    ELSE IF "host_" \in DOMAIN params
    THEN [w EXCEPT !.devices =
             Append(@, [objid |-> NewId(w), name |-> params.name_, host |-> params.host_])]
    ELSE [w EXCEPT !.groups = Append(@, [objid |-> NewId(w), name |-> params.name_])]

\* requests.get of a creation endpoint followed by raise_for_status: the
\* request is issued, the server carries the creation out when the outcome
\* says so, and the body is not parsed
direct_get(w, url, params) ==
    [w |-> Created(Issue(w, url, params), NextOut(w), params),
     exc |-> IF NextOut(w).kind \in ({"ok"} \cup JsonKinds) THEN "" ELSE NextOut(w).kind,
     out |-> NextOut(w)]

group_name == <<"N", "e", "t", "B", "o", "x", " ", "I", "m", "p", "o", "r", "t">>

\* get_or_create_import_group after the lookup that follows the creation
after_group_relookup(r3) ==
    IF Raised(r3) THEN r3
    ELSE IF Truthy(r3.ret)
    THEN Return(r3.ret, Log(r3.w, "info", <<"Created PRTG group: ">> \o group_name))
    ELSE Return([error |-> <<"Group created but could not be found">>], r3.w)

\* get_or_create_import_group after the creation call, g
after_group_creation(g) ==
    IF "RequestException" \in ExcClasses(g.exc)
    THEN Return(None, Log(g.w, "error", <<"Failed to create PRTG group: ">> \o ExcStr(g.out)))
    ELSE IF g.exc # "" THEN Raise(g.exc, g.w)
    ELSE after_group_relookup(find_group_by_name(g.w, group_name))

\* get_or_create_import_group after its first lookup, r1
after_group_lookup(r1, parent_group_id) ==
    IF Raised(r1) THEN r1
    ELSE IF Truthy(r1.ret) THEN Return(r1.ret, r1.w)
    ELSE after_group_creation(
             direct_get(r1.w, base_url \o <<"/api/addgroup.htm">>,
                        [name_ |-> group_name,
                         id |-> IF parent_group_id # 0 THEN IntToStr(parent_group_id)
                                ELSE <<"1">>,
                         apitoken |-> api_token]))

get_or_create_import_group(w, parent_group_id) ==
    after_group_lookup(find_group_by_name(w, group_name), parent_group_id)

\* creation_result that takes the word objid in the body as the only sign
\* of a created device
creation_result_ObjidOnly(g, r2, name) ==
    IF Raised(r2) THEN r2
    ELSE IF Truthy(r2.ret)
    THEN Return([success |-> TRUE,
                 device_id |-> r2.ret.objid,
                 message |-> <<"Device '">> \o name \o <<"' created in PRTG">>,
                 device_url |-> get_device_url(r2.ret.objid)],
                cache_delete(r2.w, <<"prtg_device_">> \o Lower(name)))
    ELSE IF Contains(<<"o", "b", "j", "i", "d">>, Lower(g.out.text))
    THEN Return([success |-> TRUE,
                 message |-> <<"Device '">> \o name
                             \o <<"' created in PRTG (may take a moment to appear)">>],
                r2.w)
    ELSE Return([error |-> <<"Device creation response unclear - check PRTG manually">>], r2.w)

\* create_device after a creation call that raised nothing, g, and the
\* lookup of the new device, r2
creation_result(g, r2, name) ==
    IF Raised(r2) THEN r2
    ELSE IF Truthy(r2.ret)
    THEN Return([success |-> TRUE,
                 device_id |-> r2.ret.objid,
                 message |-> <<"Device '">> \o name \o <<"' created in PRTG">>,
                 device_url |-> get_device_url(r2.ret.objid)],
                cache_delete(r2.w, <<"prtg_device_">> \o Lower(name)))
    ELSE IF Contains(<<"o", "b", "j", "i", "d">>, Lower(g.out.text)) \/ g.out.code = 200
    THEN Return([success |-> TRUE,
                 message |-> <<"Device '">> \o name
                             \o <<"' created in PRTG (may take a moment to appear)">>],
                r2.w)
    ELSE Return([error |-> <<"Device creation response unclear - check PRTG manually">>], r2.w)

\* after_device_creation without the case of status 400
after_device_creation_No400(g, name) ==
    IF g.exc = "" THEN creation_result(g, find_device_by_hostname(g.w, name), name)
    ELSE IF "HTTPError" \in ExcClasses(g.exc)
    THEN Return([error |-> <<"HTTP error: ">> \o ExcStr(g.out)],
                Log(g.w, "error", <<"Failed to create PRTG device: ">> \o ExcStr(g.out)))
    ELSE IF "RequestException" \in ExcClasses(g.exc)
    THEN Return([error |-> ExcStr(g.out)],
                Log(g.w, "error", <<"Failed to create PRTG device: ">> \o ExcStr(g.out)))
    ELSE Raise(g.exc, g.w)

\* after_device_creation that deletes the entry of the name before it
\* looks the new device up, and not after
after_device_creation_InvalidateFirst(g, name) ==
    IF g.exc # "" THEN after_device_creation_No400(g, name)
    ELSE LET r2 == find_device_by_hostname(
                       cache_delete(g.w, <<"prtg_device_">> \o Lower(name)), name)
         IN  IF Raised(r2) \/ ~Truthy(r2.ret) THEN creation_result(g, r2, name)
             ELSE Return([success |-> TRUE,
                          device_id |-> r2.ret.objid,
                          message |-> <<"Device '">> \o name \o <<"' created in PRTG">>,
                          device_url |-> get_device_url(r2.ret.objid)],
                         r2.w)

\* create_device after its creation call, g
after_device_creation(g, name) ==
    IF g.exc = "" THEN creation_result(g, find_device_by_hostname(g.w, name), name)
    ELSE IF "HTTPError" \in ExcClasses(g.exc)
    THEN IF g.out.code = 400
         THEN Return([error |-> <<"Bad request - device may already exist or invalid parameters">>],
                     g.w)
         ELSE Return([error |-> <<"HTTP error: ">> \o ExcStr(g.out)],
                     Log(g.w, "error", <<"Failed to create PRTG device: ">> \o ExcStr(g.out)))
    ELSE IF "RequestException" \in ExcClasses(g.exc)
    THEN Return([error |-> ExcStr(g.out)],
                Log(g.w, "error", <<"Failed to create PRTG device: ">> \o ExcStr(g.out)))
    ELSE Raise(g.exc, g.w)

create_device(w, name, host, group_id, auto_discover) ==
    after_device_creation(
        direct_get(w, base_url \o <<"/api/adddevice2.htm">>,
                   [name_ |-> name,
                    host_ |-> host,
                    id |-> IntToStr(group_id),
                    devicetemplate_ |-> <<"1">>,
                    discoverytype_ |-> IF auto_discover THEN <<"1">> ELSE <<"0">>,
                    discoveryschedule_ |-> <<"0">>,
                    apitoken |-> api_token]),
        name)

\* "if not import_group or "error" in import_group"
UseRootProbe(import_group) == ~Truthy(import_group) \/ "error" \in DOMAIN import_group

\* ImportGroupId with the root of the tree, 0, as the fallback
ImportGroupId_Root0(import_group) ==
    IF UseRootProbe(import_group) THEN 0 ELSE Get(import_group, "objid", 1)

\* the parent group id export_device_from_netbox creates the device under
ImportGroupId(import_group) ==
    IF UseRootProbe(import_group) THEN 1 ELSE Get(import_group, "objid", 1)

\* export_in_group that creates the device without auto-discovery
export_in_group_NoDiscovery(r2, name, host) ==
    IF Raised(r2) THEN r2
    ELSE create_device(
             IF UseRootProbe(r2.ret)
             THEN Log(r2.w, "warning",
                      <<"Could not find/create NetBox Import group, using root probe">>)
             ELSE r2.w,
             name, host, ImportGroupId(r2.ret), FALSE)

\* export_device_from_netbox after get_or_create_import_group, r2
export_in_group(r2, name, host) ==
    IF Raised(r2) THEN r2
    ELSE create_device(
             IF UseRootProbe(r2.ret)
             THEN Log(r2.w, "warning",
                      <<"Could not find/create NetBox Import group, using root probe">>)
             ELSE r2.w,
             name, host, ImportGroupId(r2.ret), TRUE)

\* export_after_lookup without the check for an existing device
export_after_lookup_NoCheck(r1, name, host) ==
    IF Raised(r1) THEN r1
    ELSE export_in_group(get_or_create_import_group(r1.w, 0), name, host)

\* export_device_from_netbox after its lookup of the name, r1
export_after_lookup(r1, name, host) ==
    IF Raised(r1) THEN r1
    ELSE IF Truthy(r1.ret)
    THEN Return([error |-> <<"Device '">> \o name \o <<"' already exists in PRTG">>,
                 device_id |-> r1.ret.objid,
                 device_url |-> get_device_url(r1.ret.objid)],
                r1.w)
    ELSE export_in_group(get_or_create_import_group(r1.w, 0), name, host)

export_device_from_netbox(w, name, host) ==
    export_after_lookup(find_device_by_hostname(w, name), name, host)

(***************************************************************************)
(* The client factory and the pages that use it.  A page obtains a client  *)
(* from the plugin's settings, config, on every request.                   *)
(***************************************************************************)
RECURSIVE rstrip(_)
\* url.rstrip("/")
rstrip(url) ==
    IF url # <<>> /\ url[Len(url)] = "/" THEN rstrip(SubSeq(url, 1, Len(url) - 1))
    ELSE url

\* "not config.get(key)": the setting is missing, None or the empty string
Unset(config, key) == key \notin DOMAIN config \/ config[key] = <<>>

\* PRTGClient.__init__
PRTGClient(url, token, timeout, verify_ssl, ttl) ==
    [base_url |-> rstrip(url), api_token |-> token, timeout |-> timeout,
     verify_ssl |-> verify_ssl, cache_timeout |-> ttl]

\* a factory that asks for the url only
get_client_UrlOnly(config) ==
    IF Unset(config, "prtg_url") THEN None
    ELSE PRTGClient(config.prtg_url, Get(config, "prtg_api_token", <<>>),
                    Get(config, "timeout", 30), Get(config, "verify_ssl", TRUE),
                    Get(config, "cache_timeout", 60))

\* get_client(): the client, or None when the plugin is not configured
get_client(config) ==
    IF Unset(config, "prtg_url") \/ Unset(config, "prtg_api_token") THEN None
    ELSE PRTGClient(config.prtg_url, config.prtg_api_token,
                    Get(config, "timeout", 30), Get(config, "verify_ssl", TRUE),
                    Get(config, "cache_timeout", 60))

\* the warning get_client logs when it returns None
unconfigured(w) ==
    Log(w, "warning", <<"PRTG plugin not configured - missing prtg_url or prtg_api_token">>)

\* the device dict a page builds from a direct id
DirectDevice(prtg_device_id, lookup_name) ==
    [objid |-> prtg_device_id, name |-> lookup_name, cached |-> FALSE]

\* the context of the tab from the device and its summary, s
tab_context(client, prtg_device, s) ==
    IF Raised(s) THEN s
    ELSE Return([prtg_device |-> prtg_device,
                 summary |-> s.ret,
                 prtg_url |-> client.base_url,
                 prtg_device_url |-> get_device_url(prtg_device.objid),
                 cached |-> Get(prtg_device, "cached", FALSE)],
                s.w)

\* the tab once the device is determined, r
tab_summary(client, r, lookup_name) ==
    IF Raised(r) THEN r
    ELSE IF ~Truthy(r.ret)
    THEN Return([not_found |-> TRUE, search_term |-> lookup_name], r.w)
    ELSE tab_context(client, r.ret, get_device_summary(r.w, r.ret.objid))

\* the device a tab shows: prtg_device_id is 0 when the custom field is
\* not set
tab_device_AlwaysSearch(w, lookup_name, prtg_device_id) ==
    find_device_by_hostname(w, lookup_name)

tab_device(w, lookup_name, prtg_device_id) ==
    IF prtg_device_id # 0 THEN Return(DirectDevice(prtg_device_id, lookup_name), w)
    ELSE find_device_by_hostname(w, lookup_name)

tab_with_client(w, client, lookup_name, prtg_device_id) ==
    IF IsNone(client)
    THEN Return([error |-> <<"PRTG not configured. Configure the plugin in NetBox settings.">>],
                unconfigured(w))
    ELSE tab_summary(client, tab_device(w, lookup_name, prtg_device_id), lookup_name)

\* DevicePRTGView.get and VMPRTGView.get
prtg_tab(w, config, lookup_name, prtg_device_id) ==
    tab_with_client(w, get_client(config), lookup_name, prtg_device_id)

(***************************************************************************)
(* The system-wide summary.  It asks for the devices, then for the sensors *)
(* of each, and stores the counts under one key.                           *)
(***************************************************************************)
AggregateKey == <<"prtg_aggregate_summary">>

AllDevicesParams ==
    [content |-> <<"devices">>, columns |-> <<"objid,name">>, count |-> <<"*">>]

RECURSIVE aggregate_devices(_, _, _, _)
RECURSIVE aggregate_sensors(_, _, _, _)
\* the summary after the sensor query of one device, r
aggregate_sensors(r, devices, summary, cache_ttl) ==
    IF Raised(r) THEN r
    ELSE IF "error" \in DOMAIN r.ret THEN Return([error |-> r.ret.error], r.w)
    ELSE aggregate_devices(r.w, devices,
             Tally(Get(r.ret, "sensors", <<>>),
                   [summary EXCEPT !.total = @ + Len(Get(r.ret, "sensors", <<>>))]),
             cache_ttl)

\* the summary over the devices that remain
aggregate_devices(w, devices, summary, cache_ttl) ==
    IF devices = <<>> THEN Return(summary, cache_set(w, AggregateKey, summary, cache_ttl))
    ELSE aggregate_sensors(
             make_request(w, "/api/table.json", SensorParams(Head(devices).objid)),
             Tail(devices), summary, cache_ttl)

\* the summary after the query of the devices, r
aggregate_listing(r, cache_ttl) ==
    IF Raised(r) THEN r
    ELSE IF "error" \in DOMAIN r.ret THEN Return([error |-> r.ret.error], r.w)
    ELSE aggregate_devices(r.w, Get(r.ret, "devices", <<>>),
             [up |-> 0, warning |-> 0, down |-> 0, paused |-> 0,
              unusual |-> 0, unknown |-> 0, total |-> 0],
             cache_ttl)

aggregate_or_cached(w, cache_ttl, cached) ==
    IF cached # <<>> THEN Return(cached[1], w)
    ELSE aggregate_listing(make_request(w, "/api/table.json", AllDevicesParams), cache_ttl)

\* get_aggregate_sensor_summary(cache_timeout)
get_aggregate_sensor_summary(w, cache_ttl) ==
    aggregate_or_cached(w, cache_ttl, cache_get(w, AggregateKey))

(***************************************************************************)
(* The dashboard widget.                                                   *)
(***************************************************************************)
StatusDef(key, label, bg_class, text_class) ==
    [key |-> key, label |-> label, bg_class |-> bg_class, text_class |-> text_class]

StatusDefs ==
    <<StatusDef("up", "Up", <<"bg-success">>, "text-white"),
      StatusDef("warning", "Warning", <<"bg-warning">>, "text-dark"),
      StatusDef("down", "Down", <<"bg-danger">>, "text-white"),
      StatusDef("paused", "Paused", <<"bg-secondary">>, "text-white"),
      StatusDef("unusual", "Unusual", None, "text-white"),
      StatusDef("unknown", "Unknown", <<"bg-dark">>, "text-white")>>

RECURSIVE Statuses(_, _)
\* the loop over status_defs: unusual and unknown are left out when zero
Statuses(defs, summary) ==
    IF defs = <<>> THEN <<>>
    ELSE IF Head(defs).key \in {"unusual", "unknown"} /\ Get(summary, Head(defs).key, 0) = 0
    THEN Statuses(Tail(defs), summary)
    ELSE <<[key |-> Head(defs).key, label |-> Head(defs).label,
            count |-> Get(summary, Head(defs).key, 0),
            bg_class |-> Head(defs).bg_class, text_class |-> Head(defs).text_class]>>
         \o Statuses(Tail(defs), summary)

\* a widget that renders whatever it is given as counts
render_summary_IgnoresError(client, s) ==
    IF Raised(s) THEN s
    ELSE Return([statuses |-> Statuses(StatusDefs, s.ret),
                 total |-> Get(s.ret, "total", 0),
                 prtg_url |-> client.base_url,
                 cached |-> Get(s.ret, "cached", FALSE)],
                s.w)

\* the widget from the summary, s
render_summary(client, s) ==
    IF Raised(s) THEN s
    ELSE IF "error" \in DOMAIN s.ret THEN Return([error |-> s.ret.error], s.w)
    ELSE Return([statuses |-> Statuses(StatusDefs, s.ret),
                 total |-> Get(s.ret, "total", 0),
                 prtg_url |-> client.base_url,
                 cached |-> Get(s.ret, "cached", FALSE)],
                s.w)

render_with_client(w, client, widget_config) ==
    IF IsNone(client)
    THEN Return([error |-> <<"PRTG not configured. Set prtg_url and prtg_api_token in plugin settings.">>],
                unconfigured(w))
    ELSE render_summary(client,
             get_aggregate_sensor_summary(w, Get(widget_config, "cache_timeout", 300)))

\* PRTGStatusWidget.render
render(w, config, widget_config) == render_with_client(w, get_client(config), widget_config)

(***************************************************************************)

(* Inputs.                                                                 *)
(***************************************************************************)
SW1 == <<"S", "W", "1">>
sw1 == <<"s", "w", "1">>
Sw1b == <<"S", "w", "1", "b">>
core == <<"c", "o", "r", "e">>
ip10 == <<"1", "0">>

Row(name, host) == [name |-> name, host |-> host]

\* the rows a server's device table is drawn from
DeviceRows == {Row(SW1, ip10), Row(Sw1b, sw1), Row(Sw1b, ip10), Row(core, ip10)}

\* the sequences of length at most n over S
SeqsUpTo(S, n) == UNION {[1..k -> S] : k \in 0..n}

\* the server numbers its objects from 11 in creation order
Numbered(rows, base) == [i \in 1..Len(rows) |-> Put(rows[i], "objid", base + i)]

\* what a table query can do other than answer 200
QueryDeviations ==
    {Exc("ReadTimeout"), Exc("ConnectTimeout"), Exc("ConnectionError"),
     HttpError(401), HttpError(500), Exc("TooManyRedirects"),
     Exc("JSONDecodeError"), Exc("ValueError")}

\* the names looked up and exported, and the device whose sensors are read
ExportNames == {SW1}
HostNames == {ip10}
LookupNames == {SW1, ip10}
DeviceIds == {11}

\* a table query that can time out and nothing else
ReadTimeouts == {Exc("ReadTimeout")}

\* what a creation call can do other than answer 200 and create
CreateDeviations ==
    {Exc("ReadTimeout"), Outcome("ReadTimeout", 0, TRUE), Exc("ConnectionError"),
     HttpError(400), HttpError(500), Outcome("ok", 204, TRUE)}

IsCreation(req) == "name_" \in DOMAIN req.params
IsSensorQuery(req) == "filter_parentid" \in DOMAIN req.params

Deviates(out) == out.kind # "ok" \/ out.code # 200
Faults(plan) == Cardinality({i \in 1..Len(plan) : Deviates(plan[i])})

\* a call of the client: the operation, its arguments, and the sets the
\* outcomes of its requests are drawn from
Call(op, args, qdev, rows) ==
    [op |-> op, args |-> args, qdev |-> qdev, rows |-> rows, cdev |-> CreateDeviations]

Run(call, w) ==
    CASE call.op = "request" -> make_request(w, call.args[1], << >>)
      [] call.op = "test_connection" -> test_connection(w)
      [] call.op = "find" -> find_device_by_hostname(w, call.args[1])
      [] call.op = "sensors" -> get_device_sensors(w, call.args[1])
      [] call.op = "summary" -> get_device_summary(w, call.args[1])
      [] call.op = "export" -> export_device_from_netbox(w, call.args[1], call.args[2])
      [] call.op = "tab" -> prtg_tab(w, call.args[1], call.args[2], call.args[3])
      [] call.op = "aggregate" -> get_aggregate_sensor_summary(w, call.args[1])
      [] call.op = "widget" -> render(w, call.args[1], call.args[2])

\* the outcomes the next request can have after the outcomes in plan: at
\* most MaxFaults requests of a call deviate, and the table queries that
\* fail in one call fail the same way
Options(call, plan, req) ==
    LET used == {plan[i] : i \in 1..Len(plan)} \cap call.qdev
        answers == IF IsSensorQuery(req)
                   THEN {[Ok EXCEPT !.sensors = rows] : rows \in call.rows}
                   ELSE {Ok}
    IN  answers \cup
        (IF Faults(plan) >= MaxFaults THEN {}
         ELSE IF IsCreation(req) THEN call.cdev
         ELSE IF used # {} THEN used
         ELSE call.qdev)

RECURSIVE Plans(_, _, _)
\* the plans of a call from world w that extend plan, r being the run of
\* the call under plan: plan itself when the call issues no request beyond
\* it, the plans that extend it by an outcome of the next request otherwise
Extend(call, w, plan, r) ==
    IF Len(r.w.reqs) <= Len(plan) THEN {plan}
    ELSE UNION {Plans(call, w, Append(plan, out)) :
                   out \in Options(call, plan, r.w.reqs[Len(plan) + 1])}

\* the plans of a call from world w that extend plan: one outcome for each
\* request the call issues
Plans(call, w, plan) == Extend(call, w, plan, Run(call, [w EXCEPT !.plan = plan]))

(***************************************************************************)
(* The state machine.  The caller (a view of the plugin) is idle or holds  *)
(* the result of the call it made (last); prev remembers what the call     *)
(* before did.  Time passes between calls.  running holds the invocations  *)
(* of export_device_from_netbox that run at the same time, when there are  *)
(* any.                                                                    *)
(***************************************************************************)
Idle == [op |-> "idle"]
NoCall == [op |-> "none", args |-> <<>>, kind |-> "none", time |-> 0]

\* what the caller can tell from the value a call returned
Kind(l) ==
    IF l.exc # "" THEN "raised"
    ELSE IF l.op \in {"sensors", "summary", "request", "test_connection",
                      "tab", "aggregate", "widget"} THEN "value"
    ELSE IF IsNone(l.ret) THEN "none"
    ELSE IF "error" \in DOMAIN l.ret
    THEN (IF "device_id" \in DOMAIN l.ret THEN "exists" ELSE "error")
    ELSE IF "success" \in DOMAIN l.ret THEN "success"
    ELSE IF l.ret.cached THEN "cached"
    ELSE "fresh"

Here == World(cache, srvDevices, srvGroups, now, <<>>)

\* the call has run: its effects on the cache and the server and its
\* result, r, are there
Commit(call, r) ==
    /\ Len(r.w.devices) <= MaxDevices
    /\ Len(r.w.groups) <= MaxGroups
    /\ cache' = r.w.cache
    /\ srvDevices' = r.w.devices
    /\ srvGroups' = r.w.groups
    /\ last' = [op |-> call.op, args |-> call.args, ret |-> r.ret, exc |-> r.exc,
                reqs |-> r.w.reqs, outs |-> r.w.outs, logs |-> r.w.logs,
                before |-> [cache |-> cache, devices |-> srvDevices,
                            groups |-> srvGroups, now |-> now]]

\* the caller makes the call; the requests it issues have the outcomes of
\* one of its plans
Do(call) ==
    /\ last = Idle
    /\ \E plan \in Plans(call, Here, <<>>) : Commit(call, Run(call, [Here EXCEPT !.plan = plan]))
    /\ UNCHANGED <<now, prev, running>>

\* the caller is done with the result; of a lookup that stored what it
\* found, the time of the store is remembered
Done ==
    /\ last # Idle
    /\ prev' = [op |-> last.op, args |-> last.args, kind |-> Kind(last),
                time |-> IF Kind(last) = "fresh" THEN now ELSE 0]
    /\ last' = Idle
    /\ UNCHANGED <<now, cache, srvDevices, srvGroups, running>>

Tick ==
    /\ last = Idle
    /\ now < MaxTime
    /\ now' = now + 1
    /\ UNCHANGED <<cache, srvDevices, srvGroups, last, prev, running>>

\* a bare transport request
Request == Do(Call("request", <<"/api/status.json">>, QueryDeviations, {}))

TestConnection == Do(Call("test_connection", <<>>, QueryDeviations, {}))

FindDevice(names, qdev) == \E hostname \in names : Do(Call("find", <<hostname>>, qdev, {}))

ExportDevice ==
    \E name \in ExportNames, host \in HostNames :
        Do(Call("export", <<name, host>>, ReadTimeouts, {}))

InitWith(tables, groups) ==
    /\ now = 0
    /\ cache = << >>
    /\ srvDevices \in {Numbered(rows, 10) : rows \in tables}
    /\ srvGroups \in {Numbered(rows, 10 + Len(srvDevices)) : rows \in groups}
    /\ last = Idle
    /\ prev = NoCall
    /\ running = << >>

(***************************************************************************)
(* The client against a server: lookups, exports and connection tests.     *)
(***************************************************************************)
Init ==
    InitWith({<<>>, <<Row(core, ip10)>>, <<Row(Sw1b, ip10)>>, <<Row(SW1, ip10)>>},
             {<<>>, <<[name |-> Lower(group_name)]>>})

Next ==
    \/ Tick
    \/ FindDevice(ExportNames, ReadTimeouts)
    \/ ExportDevice
    \/ Done

Spec == Init /\ [][Next]_vars

(***************************************************************************)
(* The transport against every outcome of a request.                       *)
(***************************************************************************)
NextTransport ==
    \/ Tick
    \/ Request
    \/ TestConnection
    \/ FindDevice(HostNames, QueryDeviations)
    \/ Done

SpecTransport == Init /\ [][NextTransport]_vars

(***************************************************************************)
(* The resolver against every device table.                                *)
(***************************************************************************)
InitResolve == InitWith(SeqsUpTo(DeviceRows, MaxDevices), {<<>>})

NextResolve ==
    \/ Tick
    \/ FindDevice(LookupNames, QueryDeviations)
    \/ Done

SpecResolve == InitResolve /\ [][NextResolve]_vars

(***************************************************************************)
(* The per-device summary against every short list of sensors.             *)
(***************************************************************************)
Str_Up == <<"U", "p">>
Str_Warning == <<"W", "a", "r", "n", "i", "n", "g">>
Str_Down == <<"D", "o", "w", "n">>
Str_Paused == <<"P", "a", "u", "s", "e", "d">>
Str_Unusual == <<"U", "n", "u", "s", "u", "a", "l">>
Str_DownUp == <<"D", "O", "W", "N", " ", "u", "p">>

StatusStrings == {Str_Up, Str_Warning, Str_Down, Str_Paused, Str_Unusual, Str_DownUp, <<>>}
StatusCodes == {1, 3, 4, 5, 8, 10}

\* sensor rows with and without the fields status and status_raw; the rows
\* with both set the status string of one bucket against the code of another
SensorRows ==
    [status : StatusStrings] \cup [status_raw : StatusCodes] \cup {<< >>}
        \cup {[status |-> Str_Down, status_raw |-> 3], [status |-> Str_Up, status_raw |-> 5],
              [status |-> Str_Paused, status_raw |-> 10], [status |-> Str_Unusual, status_raw |-> 8],
              [status |-> Str_Warning, status_raw |-> 3], [status |-> <<>>, status_raw |-> 1]}

\* the sensors of the example of the specification
ExampleSensors ==
    <<[status |-> Str_Up], [status |-> Str_Down], [status |-> Str_Warning], [status_raw |-> 7]>>

SensorLists == SeqsUpTo(SensorRows, MaxSensors) \cup {ExampleSensors}

GetDeviceSummary(ids, lists) ==
    \E device_id \in ids : Do(Call("summary", <<device_id>>, ReadTimeouts, lists))

InitSummary == InitWith({<<Row(SW1, ip10)>>}, {<<>>})

NextSummary ==
    \/ GetDeviceSummary(DeviceIds, SensorLists)
    \/ Done

SpecSummary == InitSummary /\ [][NextSummary]_vars

(***************************************************************************)
(* Every operation of the client against an empty server.                  *)
(***************************************************************************)
FewSensorLists == {<<>>, ExampleSensors}

GetDeviceSensors(ids, qdev, lists) ==
    \E device_id \in ids : Do(Call("sensors", <<device_id>>, qdev, lists))

InitClient == InitWith({<<>>}, {<<>>})

NextClient ==
    \/ Request
    \/ TestConnection
    \/ FindDevice(ExportNames, ReadTimeouts)
    \/ GetDeviceSensors(DeviceIds, ReadTimeouts, FewSensorLists)
    \/ GetDeviceSummary(DeviceIds, FewSensorLists)
    \/ ExportDevice
    \/ Done

SpecClient == InitClient /\ [][NextClient]_vars

(***************************************************************************)
(* The sensor reader and the summary against every outcome of the sensor   *)
(* query, and the resolver, with time passing between the calls.           *)
(***************************************************************************)
Summarize(ids, qdev, lists) ==
    \E device_id \in ids : Do(Call("summary", <<device_id>>, qdev, lists))

NextSensors ==
    \/ Tick
    \/ FindDevice(ExportNames, ReadTimeouts)
    \/ GetDeviceSensors(DeviceIds, QueryDeviations, FewSensorLists)
    \/ Summarize(DeviceIds, QueryDeviations, FewSensorLists)
    \/ Done

SpecSensors == InitSummary /\ [][NextSensors]_vars

(***************************************************************************)
(* The export against every answer of a creation call.  The server can     *)
(* answer a creation call before the new object shows in its tables.       *)
(***************************************************************************)
ObjidText == <<"O", "b", "j", "i", "d">>

\* a creation call that is answered while the object does not show yet
NotYetVisible(code, text) == [Outcome("ok", code, FALSE) EXCEPT !.text = text]

CreationAnswers ==
    {NotYetVisible(200, <<>>), NotYetVisible(204, <<>>), NotYetVisible(204, ObjidText),
     NotYetVisible(302, <<>>), Outcome("ok", 204, TRUE),
     HttpError(400), HttpError(404), HttpError(500),
     Exc("ReadTimeout"), Outcome("ReadTimeout", 0, TRUE), Exc("ConnectTimeout"),
     Exc("ConnectionError"), Exc("TooManyRedirects")}

ExportCreating ==
    \E name \in ExportNames, host \in HostNames :
        Do([Call("export", <<name, host>>, ReadTimeouts, {}) EXCEPT !.cdev = CreationAnswers])

ImportGroups == {<<>>, <<[name |-> group_name]>>}

InitCreate == InitWith({<<>>}, ImportGroups)

NextCreate ==
    \/ ExportCreating
    \/ Done

SpecCreate == InitCreate /\ [][NextCreate]_vars

(***************************************************************************)
(* Every operation that reads or creates, with creation calls that are    *)
(* answered before the object shows, or time out.                          *)
(***************************************************************************)
LateAnswers == {NotYetVisible(200, <<>>), Exc("ReadTimeout")}

ExportLate ==
    \E name \in ExportNames, host \in HostNames :
        Do([Call("export", <<name, host>>, ReadTimeouts, {}) EXCEPT !.cdev = LateAnswers])

NextBudget ==
    \/ FindDevice(ExportNames, ReadTimeouts)
    \/ GetDeviceSensors(DeviceIds, ReadTimeouts, FewSensorLists)
    \/ Summarize(DeviceIds, ReadTimeouts, FewSensorLists)
    \/ ExportLate
    \/ Done

SpecBudget == InitClient /\ [][NextBudget]_vars

(***************************************************************************)
(* Lookups of two names, sensor reads and exports on a server that holds   *)
(* a device of another name: the cache holds entries of several keys.      *)
(***************************************************************************)
CoreOnly == {<<Row(core, ip10)>>}

InitFrame == InitWith(CoreOnly, {<<>>})

NextFrame ==
    \/ FindDevice(LookupNames, ReadTimeouts)
    \/ GetDeviceSensors(DeviceIds, ReadTimeouts, FewSensorLists)
    \/ Summarize(DeviceIds, ReadTimeouts, FewSensorLists)
    \/ ExportDevice
    \/ Done

SpecFrame == InitFrame /\ [][NextFrame]_vars

(***************************************************************************)
(* Two requests of the web server export the same device at the same       *)
(* time.  Nothing in the client orders them: an invocation can be          *)
(* overtaken between its lookup of the name, its lookup or creation of the *)
(* group, and its creation of the device.  They share the cache and the    *)
(* server, and every request is answered.                                  *)
(***************************************************************************)
Procs == {1, 2}

NotStarted == [pc |-> "lookup", args |-> <<>>, group_id |-> 0, reqs |-> <<>>, ret |-> None]

\* invocation p has taken a step with result r: its effects on the cache
\* and the server are there, and the invocation is at pc
Advance(p, pc, args, group_id, r) ==
    /\ Len(r.w.devices) <= MaxDevices
    /\ Len(r.w.groups) <= MaxGroups
    /\ r.exc = ""
    /\ cache' = r.w.cache
    /\ srvDevices' = r.w.devices
    /\ srvGroups' = r.w.groups
    /\ running' = [running EXCEPT ![p] =
                      [pc |-> pc, args |-> args, group_id |-> group_id,
                       reqs |-> @.reqs \o r.w.reqs, ret |-> r.ret]]
    /\ UNCHANGED <<now, last, prev>>

\* "existing = self.find_device_by_hostname(name)" and the return of the
\* conflict
LookedUp(p, name, host, r1) ==
    IF Truthy(r1.ret)
    THEN Advance(p, "done", <<name, host>>, 0,
                 export_after_lookup(r1, name, host))
    ELSE Advance(p, "group", <<name, host>>, 0, r1)

ExportLookup(p) ==
    /\ running[p].pc = "lookup"
    /\ \E name \in ExportNames, host \in HostNames :
           LookedUp(p, name, host, find_device_by_hostname(Here, name))

\* "import_group = self.get_or_create_import_group()" and the choice of
\* the group id
GroupResolved(p, r2) == Advance(p, "create", running[p].args, ImportGroupId(r2.ret), r2)

ExportGroup(p) ==
    /\ running[p].pc = "group"
    /\ GroupResolved(p, get_or_create_import_group(Here, 0))

\* "result = self.create_device(...)" and the return
ExportCreate(p) ==
    /\ running[p].pc = "create"
    /\ Advance(p, "done", running[p].args, running[p].group_id,
               create_device(Here, running[p].args[1], running[p].args[2],
                             running[p].group_id, TRUE))

InitRace ==
    /\ now = 0
    /\ cache = << >>
    /\ srvDevices = << >>
    /\ srvGroups \in {Numbered(rows, 10) : rows \in ImportGroups}
    /\ last = Idle
    /\ prev = NoCall
    /\ running = [p \in Procs |-> NotStarted]

NextRace ==
    \/ Tick
    \/ \E p \in Procs : ExportLookup(p)
    \/ \E p \in Procs : ExportGroup(p)
    \/ \E p \in Procs : ExportCreate(p)

SpecRace == InitRace /\ [][NextRace]_vars

(***************************************************************************)
(* The pages: the tab of a device or virtual machine and the dashboard     *)
(* widget, under every way the plugin can be configured.                   *)
(***************************************************************************)
Configured == [prtg_url |-> base_url, prtg_api_token |-> api_token, cache_timeout |-> cache_timeout]

\* the plugin's settings: complete, with a trailing slash, or with the url
\* or the token missing or empty
Configs ==
    {Configured,
     [Configured EXCEPT !.prtg_url = base_url \o <<"/">>],
     [Configured EXCEPT !.prtg_url = <<>>],
     [Configured EXCEPT !.prtg_api_token = <<>>],
     [prtg_url |-> base_url],
     [prtg_api_token |-> api_token],
     << >>}

\* the custom field prtg_device_id of the object: not set (0), or an id
CustomIds == {0, 11}

\* the widget's own settings
WidgetConfigs == {<< >>, [cache_timeout |-> 1]}

\* what a table query of a page can do other than answer 200
PageDeviations == {Exc("ReadTimeout"), HttpError(500), Exc("ConnectionError")}

OwnSensorLists == {<<>>, <<[status |-> Str_Up]>>}

Tab ==
    \E config \in Configs, lookup_name \in ExportNames, prtg_device_id \in CustomIds :
        Do(Call("tab", <<config, lookup_name, prtg_device_id>>, ReadTimeouts, FewSensorLists))

Aggregate ==
    \E cache_ttl \in 1..CacheTimeout :
        Do(Call("aggregate", <<cache_ttl>>, PageDeviations, OwnSensorLists))

Widget ==
    \E config \in Configs, widget_config \in WidgetConfigs :
        Do(Call("widget", <<config, widget_config>>, PageDeviations, OwnSensorLists))

PageTables == {<<>>, <<Row(SW1, ip10)>>, <<Row(SW1, ip10), Row(core, ip10)>>}

InitPages == InitWith(PageTables, {<<>>})

NextPages ==
    \/ Tick
    \/ Tab
    \/ Done

SpecPages == InitPages /\ [][NextPages]_vars

NextWidget ==
    \/ Tick
    \/ Aggregate
    \/ Widget
    \/ Done

SpecWidget == InitPages /\ [][NextWidget]_vars

(***************************************************************************)
(* Properties.                                                             *)
(***************************************************************************)
Buckets == {"up", "warning", "down", "paused", "unusual", "unknown"}

\* the sensors a summary or sensor call worked on: the rows the query
\* answered, the cached rows when no request was issued, none on an error
SensorsSeen ==
    IF last.reqs = <<>>
    THEN last.before.cache[<<"prtg_sensors_">> \o IntToStr(last.args[1])].value
    ELSE IF last.outs[1].kind = "ok" THEN last.outs[1].sensors
    ELSE <<>>

\* C1: the summary of a device counts every sensor of the list in exactly
\* one of the six buckets: the bucket counts add up to total, and total is
\* the number of sensors.
C1_BucketsPartition ==
    last.op = "summary" =>
        /\ last.exc = ""
        /\ \A b \in Buckets : last.ret[b] \in 0..Len(SensorsSeen)
        /\ last.ret.up + last.ret.warning + last.ret.down + last.ret.paused
               + last.ret.unusual + last.ret.unknown = last.ret.total
        /\ last.ret.total = Len(SensorsSeen)

\* a summary of a list with a sensor in every bucket but one was computed
C1_Witness ==
    /\ last.op = "summary"
    /\ last.ret.total = MaxSensors
    /\ last.ret.unknown = 1
    /\ last.ret.up = 1

BucketOrder == <<"up", "warning", "down", "paused", "unusual">>

BucketWord(b) ==
    CASE b = "up" -> Lower(Str_Up) [] b = "warning" -> Lower(Str_Warning)
      [] b = "down" -> Lower(Str_Down) [] b = "paused" -> Lower(Str_Paused)
      [] b = "unusual" -> Lower(Str_Unusual)

BucketCodes(b) ==
    CASE b = "up" -> {3} [] b = "warning" -> {4} [] b = "down" -> {5}
      [] b = "paused" -> {7, 8, 9, 11, 12} [] b = "unusual" -> {10}

BucketMatches(b, sensor) ==
    \/ "status" \in DOMAIN sensor /\ Contains(BucketWord(b), Lower(sensor.status))
    \/ "status_raw" \in DOMAIN sensor /\ sensor.status_raw \in BucketCodes(b)

\* the bucket of the classification table: the first that matches
TableBucket(sensor) ==
    IF \E i \in 1..5 : BucketMatches(BucketOrder[i], sensor)
    THEN BucketOrder[CHOOSE i \in 1..5 :
             /\ BucketMatches(BucketOrder[i], sensor)
             /\ \A j \in 1..(i - 1) : ~BucketMatches(BucketOrder[j], sensor)]
    ELSE "unknown"

\* C2: every bucket count of a summary is the number of sensors whose first
\* matching bucket, in the order up, warning, down, paused, unusual (keyword
\* in the lowercased status string, or status code of the bucket), is that
\* bucket, unknown when none matches; the example list summarises to
\* up 1, warning 1, down 1, paused 1, unusual 0, unknown 0, total 4.
C2_FirstMatchingBucket ==
    last.op = "summary" =>
        /\ \A b \in Buckets :
              last.ret[b] =
                  Cardinality({i \in 1..Len(SensorsSeen) : TableBucket(SensorsSeen[i]) = b})
        /\ SensorsSeen = ExampleSensors =>
              last.ret = [up |-> 1, warning |-> 1, down |-> 1, paused |-> 1,
                          unusual |-> 0, unknown |-> 0, total |-> 4]

\* the example list was summarised from a fresh query
C2_Witness ==
    /\ last.op = "summary"
    /\ last.reqs # <<>>
    /\ SensorsSeen = ExampleSensors

\* the rows the name query and the host query of a lookup answered with
NameQueryRows ==
    IF Len(last.reqs) >= 1 /\ last.outs[1].kind = "ok"
    THEN FilterRows(last.before.devices, last.reqs[1].params)
    ELSE <<>>

HostQueryRows ==
    IF Len(last.reqs) >= 2 /\ last.outs[2].kind = "ok"
    THEN FilterRows(last.before.devices, last.reqs[2].params)
    ELSE <<>>

\* the candidates the server returned to a lookup
Candidates == IF NameQueryRows # <<>> THEN NameQueryRows ELSE HostQueryRows

SameName(a, b) == Lower(a) = Lower(b)

\* C3: when a candidate returned by the server has the searched name
\* (case-insensitively), whatever its position, the lookup returns a
\* candidate with that name.
C3_ExactNameAlwaysWins ==
    (/\ last.op = "find"
     /\ \E i \in 1..Len(Candidates) : SameName(Candidates[i].name, last.args[1]))
        => /\ ~IsNone(last.ret)
           /\ SameName(last.ret.name, last.args[1])

SubFilter(hostname) == <<"@sub(">> \o hostname \o <<")">>

C5_CachedWithinTimeout ==
    (/\ last.op = "find"
     /\ prev.op = "find"
     /\ prev.args = last.args
     /\ prev.kind = "fresh")
        => IF now < prev.time + cache_timeout
           THEN /\ last.reqs = <<>>
                /\ ~IsNone(last.ret)
                /\ last.ret.cached = TRUE
           ELSE /\ Len(last.reqs) >= 1
                /\ ~IsNone(last.ret) => last.ret.cached = FALSE

\* a lookup was served from the cache some time after the lookup that
\* filled it
C5_Witness ==
    /\ last.op = "find"
    /\ prev.op = "find"
    /\ prev.args = last.args
    /\ prev.kind = "fresh"
    /\ prev.time < now
    /\ last.reqs = <<>>
    /\ last.ret.cached = TRUE

\* a lookup went back to the server after the timeout
C5_WitnessExpired ==
    /\ last.op = "find"
    /\ prev.op = "find"
    /\ prev.args = last.args
    /\ prev.kind = "fresh"
    /\ now >= prev.time + cache_timeout
    /\ ~IsNone(last.ret)
    /\ last.ret.cached = FALSE

DeviceKey(name) == <<"prtg_device_">> \o Lower(name)

\* the cache serves an entry under key
Serves(key) == key \in DOMAIN cache /\ now < cache[key].expires

IsDeviceQuery(req) ==
    "content" \in DOMAIN req.params /\ req.params.content = <<"devices">>
IsGroupQuery(req) ==
    "content" \in DOMAIN req.params /\ req.params.content = <<"groups">>
IsGroupCreation(req) == "name_" \in DOMAIN req.params /\ "host_" \notin DOMAIN req.params
IsDeviceCreation(req) == "host_" \in DOMAIN req.params

\* C6: when an export has returned success the cache serves no entry for
\* the lowercased name, and the next lookup of that name issues a request
\* and marks what it finds not cached.
C6_ExportLeavesNoEntry ==
    /\ (last.op = "export" /\ Kind(last) = "success") => ~Serves(DeviceKey(last.args[1]))
    /\ (/\ last.op = "find"
        /\ prev.op = "export"
        /\ prev.kind = "success"
        /\ SameName(prev.args[1], last.args[1]))
           => /\ Len(last.reqs) >= 1
              /\ ~IsNone(last.ret) => last.ret.cached = FALSE

\* the lookup after a successful export found the new device on the server
C6_Witness ==
    /\ last.op = "find"
    /\ prev.op = "export"
    /\ prev.kind = "success"
    /\ SameName(prev.args[1], last.args[1])
    /\ ~IsNone(last.ret)
    /\ last.ret.cached = FALSE

\* C7: an export that follows a successful export of the same name returns
\* the "already exists" conflict and issues no device-creation request.
C7_SecondExportConflicts ==
    (/\ last.op = "export"
     /\ prev.op = "export"
     /\ prev.kind = "success"
     /\ prev.args = last.args)
        => /\ Kind(last) = "exists"
           /\ \A i \in 1..Len(last.reqs) : ~IsDeviceCreation(last.reqs[i])

\* the lookup an export starts with, run again on the state the export
\* started in with the outcomes its requests had
ResolverOfExport ==
    find_device_by_hostname(
        World(last.before.cache, last.before.devices, last.before.groups,
              last.before.now, last.outs),
        last.args[1])

\* C8: when the lookup an export starts with finds a device, the export
\* returns an error with that device's id and viewer URL and issues no
\* request but the lookup's: no group lookup, no group creation, no device
\* creation.
C8_ExistingDeviceBlocksExport ==
    (last.op = "export" /\ Truthy(ResolverOfExport.ret)) =>
        /\ last.exc = ""
        /\ "error" \in DOMAIN last.ret
        /\ "success" \notin DOMAIN last.ret
        /\ last.ret.device_id = ResolverOfExport.ret.objid
        /\ last.ret.device_url
               = base_url \o <<"/device.htm?id=">> \o IntToStr(ResolverOfExport.ret.objid)
        /\ last.reqs = ResolverOfExport.w.reqs
        /\ \A i \in 1..Len(last.reqs) : IsDeviceQuery(last.reqs[i])

\* an export was refused for a device the server holds
C8_Witness ==
    /\ last.op = "export"
    /\ last.reqs # <<>>
    /\ Truthy(ResolverOfExport.ret)
    /\ Kind(last) = "exists"
    /\ \E i \in 1..Len(last.before.devices) :
          last.before.devices[i].objid = last.ret.device_id

\* the group query at position k of the last call found the import group
\* among groups
GroupFound(k, groups) ==
    /\ last.outs[k].kind = "ok"
    /\ \E i \in 1..Len(groups) : SameName(groups[i].name, group_name)

\* the export could neither find nor create the import group: its group
\* lookup failed or found nothing, and the creation call failed or the
\* lookup after it found nothing
GroupUnavailable ==
    \E k \in 1..Len(last.reqs) :
        /\ IsGroupQuery(last.reqs[k])
        /\ \A j \in 1..(k - 1) : ~IsGroupQuery(last.reqs[j])
        /\ ~GroupFound(k, last.before.groups)
        /\ Len(last.reqs) >= k + 1
        /\ IsGroupCreation(last.reqs[k + 1])
        /\ \/ last.outs[k + 1].kind # "ok"
           \/ /\ Len(last.reqs) >= k + 2
              /\ IsGroupQuery(last.reqs[k + 2])
              /\ ~GroupFound(k + 2, srvGroups)

\* C9: when an export can neither find nor create the import group it
\* still issues the device-creation request, with parent id 1.
C9_FallbackToRootProbe ==
    (last.op = "export" /\ GroupUnavailable) =>
        /\ last.exc = ""
        /\ \E i \in 1..Len(last.reqs) :
              /\ IsDeviceCreation(last.reqs[i])
              /\ last.reqs[i].params.id = <<"1">>
              /\ last.reqs[i].params.name_ = last.args[1]

\* an export without an import group created its device under id 1 and
\* returned success with the new device's id
C9_Witness ==
    /\ last.op = "export"
    /\ GroupUnavailable
    /\ Kind(last) = "success"
    /\ "device_id" \in DOMAIN last.ret
    /\ \E i \in 1..Len(srvDevices) :
          srvDevices[i].objid = last.ret.device_id /\ srvDevices[i].name = last.args[1]

AuthFailure == [error |-> <<"Authentication failed - check API token">>]

\* C10: a transport request never raises: with a 200 answer it returns the
\* parsed body, with a timeout, a connection failure, an HTTP error or a
\* body that is not JSON it returns a record with the one key error, and
\* the authentication-failure message is the message of HTTP 401 alone.
C10_TransportNeverRaises ==
    last.op = "request" =>
        /\ last.exc = ""
        /\ Len(last.outs) = 1
        /\ last.outs[1].kind = "ok" => last.ret = [Version |-> <<"24.1">>]
        /\ last.outs[1].kind # "ok" => DOMAIN last.ret = {"error"}
        /\ last.ret = AuthFailure <=> last.outs[1] = HttpError(401)

\* a request answered 401 returned the authentication failure
C10_Witness ==
    /\ last.op = "request"
    /\ last.outs = <<HttpError(401)>>
    /\ last.ret = AuthFailure

\* the log record of the transport for a request of endpoint that timed out
TimeoutRecord(endpoint) ==
    [level |-> "error", msg |-> <<"PRTG API request timed out: ", endpoint>>]

\* a request of the call l ended in an exception of class requests.Timeout
TimedOut(l, i) == "Timeout" \in ExcClasses(l.outs[i].kind)

C12_EveryRequestCarriesToken ==
    last # Idle =>
        \A i \in 1..Len(last.reqs) :
            /\ "apitoken" \in DOMAIN last.reqs[i].params
            /\ last.reqs[i].params.apitoken = api_token

\* an export created the group and the device: it issued table queries and
\* both creation calls
C12_Witness ==
    /\ last.op = "export"
    /\ \E i \in 1..Len(last.reqs) : IsGroupCreation(last.reqs[i])
    /\ \E i \in 1..Len(last.reqs) : IsDeviceCreation(last.reqs[i])
    /\ \E i \in 1..Len(last.reqs) : IsGroupQuery(last.reqs[i])
    /\ \E i \in 1..Len(last.reqs) : IsDeviceQuery(last.reqs[i])

\* the summary of no sensor
ZeroSummary ==
    [up |-> 0, warning |-> 0, down |-> 0, paused |-> 0, unusual |-> 0, unknown |-> 0,
     total |-> 0]

\* the one request of the call l, a sensor query, did not answer 200
SensorQueryFailed(l) == Len(l.outs) = 1 /\ l.outs[1].kind # "ok"

\* C13: when the sensor query fails (timeout, connection failure, HTTP
\* error, redirect loop, body that is not JSON) get_device_sensors raises
\* nothing and returns the empty list, and get_device_summary raises nothing
\* and returns the summary with every bucket and the total 0.
C13_FailedSensorQueryIsEmpty ==
    /\ (last.op = "sensors" /\ SensorQueryFailed(last)) =>
          (last.exc = "" /\ last.ret = <<>>)
    /\ (last.op = "summary" /\ SensorQueryFailed(last)) =>
          (last.exc = "" /\ last.ret = ZeroSummary)

\* a summary was asked for and the sensor query was answered HTTP 500
C13_Witness ==
    /\ last.op = "summary"
    /\ last.outs = <<HttpError(500)>>
    /\ last.ret.total = 0

\* a request of the call l did not answer 200
SomeQueryFailed(l) == \E i \in 1..Len(l.outs) : l.outs[i].kind # "ok"

\* C14: a lookup one of whose queries fails (the query by name, or the
\* query by host that follows an empty answer) raises nothing and returns
\* NotFound, never a device and never an error value.
C14_SearchErrorIsNotFound ==
    (last.op = "find" /\ SomeQueryFailed(last)) =>
        /\ last.exc = ""
        /\ IsNone(last.ret)

\* the query by name answered no device and the query by host, which the
\* server would have answered with a device, failed
C14_Witness ==
    /\ last.op = "find"
    /\ Len(last.outs) = 2
    /\ last.outs[1].kind = "ok"
    /\ last.outs[2].kind # "ok"
    /\ FilterRows(last.before.devices, last.reqs[2].params) # <<>>
    /\ IsNone(last.ret)

DeviceCreation(l) ==
    IF \E i \in 1..Len(l.reqs) : IsDeviceCreation(l.reqs[i])
    THEN CHOOSE i \in 1..Len(l.reqs) : IsDeviceCreation(l.reqs[i])
    ELSE 0

\* the creation call of the export raised nothing and the lookup after it
\* found no device: its last query failed or matched nothing on the server
CreatedButNotFound(l) ==
    /\ l.op = "export"
    /\ DeviceCreation(l) # 0
    /\ l.outs[DeviceCreation(l)].kind = "ok"
    /\ Len(l.reqs) > DeviceCreation(l)
    /\ \/ l.outs[Len(l.reqs)].kind # "ok"
       \/ FilterRows(srvDevices, l.reqs[Len(l.reqs)].params) = <<>>

MayTakeAMoment(name) ==
    [success |-> TRUE,
     message |-> <<"Device '">> \o name \o <<"' created in PRTG (may take a moment to appear)">>]

ResponseUnclear == [error |-> <<"Device creation response unclear - check PRTG manually">>]

\* C16 as claimed: when the lookup after a creation call that raised nothing
\* finds no device, the export returns success without a device id and with
\* the note that the device may take a moment to appear.
C16_NotFoundAfterCreationIsSuccess ==
    CreatedButNotFound(last) =>
        /\ last.exc = ""
        /\ last.ret = MayTakeAMoment(last.args[1])

\* C16: when the lookup after a creation call that raised nothing finds no
\* device, the export returns success without a device id and with the note
\* if the creation call answered with status 200 or its body mentions
\* "objid" (in any case), and the error "response unclear" otherwise; it
\* never raises.
C16_NotFoundAfterCreation ==
    CreatedButNotFound(last) =>
        /\ last.exc = ""
        /\ last.ret = IF \/ last.outs[DeviceCreation(last)].code = 200
                         \/ Contains(Lower(ObjidText), Lower(last.outs[DeviceCreation(last)].text))
                      THEN MayTakeAMoment(last.args[1])
                      ELSE ResponseUnclear

\* the server answered the creation call with 200 and the device does not
\* show yet in either query of the lookup
C16_Witness ==
    /\ CreatedButNotFound(last)
    /\ last.outs[DeviceCreation(last)].code = 200
    /\ Len(last.reqs) = DeviceCreation(last) + 2
    /\ last.outs[Len(last.reqs)].kind = "ok"
    /\ last.ret = MayTakeAMoment(SW1)

\* the creation call of the export failed: requests.get or raise_for_status
\* raised
CreationFailed(l) ==
    /\ l.op = "export"
    /\ DeviceCreation(l) # 0
    /\ l.outs[DeviceCreation(l)].kind # "ok"

BadRequest == [error |-> <<"Bad request - device may already exist or invalid parameters">>]

\* C17: when the creation call of an export fails with HTTP 400 the export
\* returns the "bad request" error; when it fails in any other way (another
\* HTTP status, a timeout, a connection error, too many redirects) the
\* export returns a dict with only an error that ends with the message of
\* the exception; the export then neither raises nor returns success.
C17_CreationFailureIsError ==
    CreationFailed(last) =>
        /\ last.exc = ""
        /\ DOMAIN last.ret = {"error"}
        /\ IF last.outs[DeviceCreation(last)] = HttpError(400)
           THEN last.ret = BadRequest
           ELSE /\ last.ret # BadRequest
                /\ last.ret.error \in
                       {ExcStr(last.outs[DeviceCreation(last)]),
                        <<"HTTP error: ">> \o ExcStr(last.outs[DeviceCreation(last)])}

C17_Witness ==
    /\ CreationFailed(last)
    /\ last.outs[DeviceCreation(last)] = HttpError(400)
    /\ last.ret = BadRequest
    /\ Len(last.reqs) = DeviceCreation(last)

\* the setting is there and is not the empty string
Present(config, key) == key \in DOMAIN config /\ Len(config[key]) > 0

NotConfiguredTab == [error |-> <<"PRTG not configured. Configure the plugin in NetBox settings.">>]

\* C18: get_client returns None exactly when prtg_url or prtg_api_token is
\* missing or empty, and otherwise a client with that token and that url
\* (less trailing slashes); a tab that gets no client issues no request,
\* leaves the cache alone and shows the "not configured" error, and a tab
\* that gets a client does not show that error.
C18_FactoryNeedsUrlAndToken ==
    last.op = "tab" =>
        IF Present(last.args[1], "prtg_url") /\ Present(last.args[1], "prtg_api_token")
        THEN /\ ~IsNone(get_client(last.args[1]))
             /\ get_client(last.args[1]).api_token = last.args[1].prtg_api_token
             /\ get_client(last.args[1]).base_url = base_url
             /\ last.ret # NotConfiguredTab
        ELSE /\ IsNone(get_client(last.args[1]))
             /\ last.reqs = <<>>
             /\ cache = last.before.cache
             /\ last.exc = ""
             /\ last.ret = NotConfiguredTab

\* the token is set and the url is empty: the tab shows the error and no
\* request was made, although the custom field names a device
C18_Witness ==
    /\ last.op = "tab"
    /\ last.args[1] = [Configured EXCEPT !.prtg_url = <<>>]
    /\ last.args[3] = 11
    /\ last.reqs = <<>>
    /\ last.ret = NotConfiguredTab

IsResolverKey(key) == key # <<>> /\ key[1] = "prtg_device_"

\* the entries of the resolver in a cache
ResolverEntries(c) == [key \in {k \in DOMAIN c : IsResolverKey(k)} |-> c[key]]

\* the tab of an object whose custom field names a device, with a client
DirectTab(l) ==
    /\ l.op = "tab"
    /\ ~IsNone(get_client(l.args[1]))
    /\ l.args[3] # 0

\* C19: a tab of an object whose custom field holds a device id issues no
\* query of the devices (its only request, if any, is the sensor query of
\* that id), leaves the entries of the resolver in the cache as they were,
\* also when the cache holds the object's name, and shows the device with
\* that id and the object's name as not from the cache.
C19_DirectIdSkipsResolver ==
    DirectTab(last) =>
        /\ last.exc = ""
        /\ \A i \in 1..Len(last.reqs) :
               /\ last.reqs[i].params.content = <<"sensors">>
               /\ last.reqs[i].params.filter_parentid = IntToStr(last.args[3])
        /\ ResolverEntries(cache) = ResolverEntries(last.before.cache)
        /\ last.ret.prtg_device = DirectDevice(last.args[3], last.args[2])
        /\ last.ret.cached = FALSE

\* the resolver's entry for the name is in the cache and not expired, and
\* the tab used the direct id and read the sensors from the server
C19_Witness ==
    /\ DirectTab(last)
    /\ cache_get(World(last.before.cache, <<>>, <<>>, last.before.now, <<>>),
                 <<"prtg_device_">> \o Lower(last.args[2])) # <<>>
    /\ Len(last.reqs) = 1
    /\ last.ret.cached = FALSE

\* the cache before the call serves key: the entry is there and the time
\* of the call is before the entry's expiry
ServedBefore(l, key) ==
    key \in DOMAIN l.before.cache /\ l.before.now < l.before.cache[key].expires

SensorsKey(device_id) == <<"prtg_sensors_">> \o IntToStr(device_id)

\* C20: every entry a lookup, a sensor read or a summary writes expires
\* cache_timeout after the time of the call; get_device_sensors returns the
\* stored list without a request when the call is before the expiry of the
\* entry of the device, and issues exactly one request, the sensor query,
\* when there is no entry or the expiry is reached; the lookup issues no
\* request exactly when the entry of the name is there and not expired.
C20_EntriesLiveForTheTtl ==
    /\ last.op \in {"find", "sensors", "summary"} =>
           \A key \in DOMAIN cache :
               (key \notin DOMAIN last.before.cache \/ cache[key] # last.before.cache[key])
                   => cache[key].expires = last.before.now + cache_timeout
    /\ last.op = "sensors" =>
           IF ServedBefore(last, SensorsKey(last.args[1]))
           THEN /\ last.reqs = <<>>
                /\ last.ret = last.before.cache[SensorsKey(last.args[1])].value
           ELSE /\ Len(last.reqs) = 1
                /\ IsSensorQuery(last.reqs[1])
    /\ last.op = "find" =>
           (last.reqs = <<>> <=> ServedBefore(last, <<"prtg_device_">> \o Lower(last.args[1])))

\* the entry of the device was written, its expiry is reached, and the
\* sensor read queried the server and wrote the entry again
C20_Witness ==
    /\ last.op = "sensors"
    /\ SensorsKey(last.args[1]) \in DOMAIN last.before.cache
    /\ last.before.now >= last.before.cache[SensorsKey(last.args[1])].expires
    /\ Len(last.reqs) = 1
    /\ last.outs[1].kind = "ok"
    /\ cache[SensorsKey(last.args[1])].expires = last.before.now + cache_timeout

\* the call run again on the state it started in, with the outcomes its
\* requests had
Replay ==
    Run([op |-> last.op, args |-> last.args],
        World(last.before.cache, last.before.devices, last.before.groups,
              last.before.now, last.outs))

\* the export created a device and returns its id
CreatedWithId(l) ==
    /\ l.op = "export"
    /\ l.exc = ""
    /\ "success" \in DOMAIN l.ret
    /\ "device_id" \in DOMAIN l.ret

NameKey(name) == <<"prtg_device_">> \o Lower(name)

\* C21 as claimed: in an export that returns the id of the device it
\* created, the entry of the name is deleted right after the creation call,
\* before the queries of the lookup that gives the id are issued.
C21_InvalidateThenResolve ==
    CreatedWithId(last) =>
        \E k \in 1..Len(Replay.w.ops) :
            /\ Replay.w.ops[k].op = "delete"
            /\ Replay.w.ops[k].key = NameKey(last.args[1])
            /\ Replay.w.ops[k].at = DeviceCreation(last)
            /\ Replay.w.ops[k].at < Len(last.reqs)

\* C21: in an export that returns the id of the device it created, the
\* lookup comes first: after the creation request the export issues a query
\* of the devices, the last one is answered with the device whose id is
\* returned, the lookup stores it, and only then, as the last thing it does
\* to the cache and after its last request, the export deletes the entry of
\* the name; it deletes nothing else, and the cache is left without the
\* entry.
C21_ResolveThenInvalidate ==
    CreatedWithId(last) =>
        /\ Len(last.reqs) > DeviceCreation(last)
        /\ last.reqs[Len(last.reqs)].params.content = <<"devices">>
        /\ last.outs[Len(last.reqs)].kind = "ok"
        /\ \E i \in 1..Len(srvDevices) :
               /\ srvDevices[i].objid = last.ret.device_id
               /\ FilterRows(<<srvDevices[i]>>, last.reqs[Len(last.reqs)].params) # <<>>
        /\ Len(Replay.w.ops) = 2
        /\ Replay.w.ops[1] = [op |-> "set", key |-> NameKey(last.args[1]), at |-> Len(last.reqs)]
        /\ Replay.w.ops[2] = [op |-> "delete", key |-> NameKey(last.args[1]), at |-> Len(last.reqs)]
        /\ NameKey(last.args[1]) \notin DOMAIN cache

\* the export created the group and the device and returns the device's id
C21_Witness ==
    /\ CreatedWithId(last)
    /\ \E i \in 1..Len(last.reqs) : IsGroupCreation(last.reqs[i])
    /\ Replay.w.ops[Len(Replay.w.ops)].op = "delete"
    /\ last.ret.device_id = srvDevices[Len(srvDevices)].objid

\* the device-creation requests for name that the invocation issued
CreationsFor(inv, name) ==
    {i \in 1..Len(inv.reqs) :
        IsDeviceCreation(inv.reqs[i]) /\ SameName(inv.reqs[i].params.name_, name)}

\* C22: two invocations of the export for the same name that run at the
\* same time issue at most one device-creation request for that name
\* between them.
C22_NoDoubleCreation ==
    running # <<>> =>
        \A name \in ExportNames :
            Cardinality(CreationsFor(running[1], name))
                + Cardinality(CreationsFor(running[2], name)) <= 1

IsLookupOfImportGroup(req) ==
    /\ "content" \in DOMAIN req.params
    /\ req.params.content = <<"groups">>
    /\ req.params.filter_name = group_name

\* C23: an export on a server that holds a group named "NetBox Import"
\* issues no group-creation request, whatever the outcome of the lookup of
\* the group; and a group-creation request that raised nothing is followed
\* by a lookup of the group by name.
C23_GroupCreatedOnlyWhenAbsent ==
    last.op = "export" =>
        /\ (\E g \in 1..Len(last.before.groups) :
                SameName(last.before.groups[g].name, group_name))
               => \A i \in 1..Len(last.reqs) : ~IsGroupCreation(last.reqs[i])
        /\ \A i \in 1..Len(last.reqs) :
               (IsGroupCreation(last.reqs[i]) /\ last.outs[i].kind = "ok")
                   => /\ Len(last.reqs) > i
                      /\ IsLookupOfImportGroup(last.reqs[i + 1])

\* the name or the host of the device is the requested name, whatever the
\* case
IsTarget(d, name) ==
    SameName(Get(d, "name", <<>>), name) \/ SameName(Get(d, "host", <<>>), name)

\* C24: an export returns the "already exists" conflict only when the
\* server holds a device whose name or host is the requested name, or the
\* cache serves such a device for the name; a device whose name only
\* contains the requested name does not make the export return it.
C24_ConflictOnlyForTarget ==
    (last.op = "export" /\ Kind(last) = "exists") =>
        \/ \E i \in 1..Len(last.before.devices) :
               IsTarget(last.before.devices[i], last.args[1])
        \/ /\ ServedBefore(last, NameKey(last.args[1]))
           /\ IsTarget(last.before.cache[NameKey(last.args[1])].value, last.args[1])

\* the candidates whose host is the searched name, whatever the case
HostMatches(name) ==
    {i \in 1..Len(Candidates) : SameName(Get(Candidates[i], "host", <<>>), name)}

\* the least number of a nonempty set of numbers
Least(S) == CHOOSE i \in S : \A j \in S : i <= j

\* C25: when the server returned candidates to a lookup and none of them
\* has the searched name, the lookup returns the first candidate in the
\* server's order whose host is the searched name (case-insensitively), and
\* the first candidate of all when no host is the searched name either.
C25_HostThenFirst ==
    (/\ last.op = "find"
     /\ Candidates # <<>>
     /\ \A i \in 1..Len(Candidates) : ~SameName(Get(Candidates[i], "name", <<>>), last.args[1]))
        => /\ last.exc = ""
           /\ last.ret = Put(Candidates[IF HostMatches(last.args[1]) # {}
                                        THEN Least(HostMatches(last.args[1]))
                                        ELSE 1],
                             "cached", FALSE)

\* the second candidate was returned for its host, ahead of the first
C25_Witness ==
    /\ last.op = "find"
    /\ Len(Candidates) >= 2
    /\ \A i \in 1..Len(Candidates) : ~SameName(Get(Candidates[i], "name", <<>>), last.args[1])
    /\ Least(HostMatches(last.args[1]) \cup {Len(Candidates)}) = 2
    /\ HostMatches(last.args[1]) # {}
    /\ last.ret.objid = Candidates[2].objid

\* the requests of the last call that satisfy Is
CountOf(Is(_)) == Cardinality({i \in 1..Len(last.reqs) : Is(last.reqs[i])})

\* C26: a lookup issues at most two requests and none when the cache serves
\* the name; a sensor read and a summary issue at most one request and none
\* when the cache serves the device; an export issues at most eight
\* requests, at most one of them a device creation and at most one a group
\* creation; every request has one outcome, and a request that failed is
\* not followed by the same request again.
C26_BoundedRequests ==
    /\ last.op = "find" =>
           /\ Len(last.reqs) <= 2
           /\ ServedBefore(last, NameKey(last.args[1])) => last.reqs = <<>>
    /\ last.op \in {"sensors", "summary"} =>
           /\ Len(last.reqs) <= 1
           /\ ServedBefore(last, SensorsKey(last.args[1])) => last.reqs = <<>>
    /\ last.op = "export" =>
           /\ Len(last.reqs) <= 8
           /\ CountOf(IsDeviceCreation) <= 1
           /\ CountOf(IsGroupCreation) <= 1
    /\ last # Idle =>
           /\ last.exc = ""
           /\ Len(last.outs) = Len(last.reqs)
           /\ \A i \in 1..(Len(last.reqs) - 1) :
                  last.outs[i].kind # "ok" => last.reqs[i + 1] # last.reqs[i]

\* the export that issues eight requests: two queries of the lookup, the
\* lookup, the creation and the second lookup of the group, the creation of
\* the device, and two queries of the lookup after it
C26_Witness ==
    /\ last.op = "export"
    /\ Len(last.reqs) = 8
    /\ CountOf(IsDeviceCreation) = 1
    /\ CountOf(IsGroupCreation) = 1
    /\ CountOf(IsDeviceQuery) = 4

\* the key an operation reads and writes
OwnKey(l) ==
    IF l.op \in {"sensors", "summary"} THEN SensorsKey(l.args[1]) ELSE NameKey(l.args[1])

\* the entries of a cache under the keys other than key
Others(c, key) == [k \in (DOMAIN c) \ {key} |-> c[k]]

\* C27: a lookup, a sensor read, a summary and an export leave the entries
\* under the keys other than their own as they were: none is deleted,
\* written or added; the only deletion of a call is that of the entry of
\* the exported name by an export, and a lookup, a sensor read and a
\* summary delete nothing.
C27_OnlyOwnEntryTouched ==
    last.op \in {"find", "sensors", "summary", "export"} =>
        /\ Others(cache, OwnKey(last)) = Others(last.before.cache, OwnKey(last))
        /\ \A k \in 1..Len(Replay.w.ops) :
               /\ Replay.w.ops[k].key = OwnKey(last)
               /\ Replay.w.ops[k].op = "delete" => last.op = "export"
        /\ last.op # "export" => DOMAIN last.before.cache \subseteq DOMAIN cache

\* an export created its device and deleted the entry of its name while the
\* cache held the sensors of a device and the entry of another name, and
\* both are still there
C27_Witness ==
    /\ CreatedWithId(last)
    /\ \E k \in 1..Len(Replay.w.ops) : Replay.w.ops[k].op = "delete"
    /\ SensorsKey(11) \in DOMAIN cache
    /\ NameKey(ip10) \in DOMAIN cache
    /\ NameKey(last.args[1]) \notin DOMAIN cache

\* the last call made again now, its requests having the outcomes of plan
\* and those beyond plan being answered
Again(plan) ==
    Run([op |-> last.op, args |-> last.args],
        World(cache, srvDevices, srvGroups, now, plan))

AnsweredWith(sensors) == <<[Ok EXCEPT !.sensors = sensors]>>

\* the lookup returned NotFound
NotFound(l) == l.op = "find" /\ l.exc = "" /\ IsNone(l.ret)

\* the server holds a device that a query of the lookup of name returns
OnServer(name) ==
    \/ FilterRows(srvDevices, NameParams(name)) # <<>>
    \/ FilterRows(srvDevices, HostParams(name)) # <<>>

\* C28: a lookup that returns NotFound, be it for an empty answer or for a
\* failed request, and a sensor read or summary whose query failed write
\* nothing to the cache and leave it as it was; the same call made again
\* issues a request, the lookup then returns a device exactly when the
\* server holds one for the name, and the sensor read returns the sensors
\* the server answers with.
C28_FailuresAreNotCached ==
    /\ (NotFound(last) \/ (last.op \in {"sensors", "summary"} /\ SensorQueryFailed(last))) =>
           /\ cache = last.before.cache
           /\ Replay.w.ops = <<>>
    /\ NotFound(last) =>
           /\ Again(<<>>).w.reqs # <<>>
           /\ ~IsNone(Again(<<>>).ret) <=> OnServer(last.args[1])
    /\ (last.op = "sensors" /\ SensorQueryFailed(last)) =>
           /\ Len(Again(AnsweredWith(ExampleSensors)).w.reqs) = 1
           /\ Again(AnsweredWith(ExampleSensors)).ret = ExampleSensors

\* the lookup of a device the server holds timed out and returned NotFound;
\* made again, it returns the device
C28_Witness ==
    /\ NotFound(last)
    /\ last.outs = <<Exc("ReadTimeout")>>
    /\ cache = last.before.cache
    /\ OnServer(last.args[1])
    /\ ~IsNone(Again(<<>>).ret)

\* the last lookup of the group that the export made before its request i
GroupLookupBefore(i) ==
    CHOOSE k \in 1..(i - 1) :
        /\ IsGroupQuery(last.reqs[k])
        /\ \A j \in (k + 1)..(i - 1) : ~IsGroupQuery(last.reqs[j])

\* the groups the server held when the export made its request k: those it
\* started with, and the one the export created before k
GroupsAt(k) ==
    IF \E j \in 1..(k - 1) : IsGroupCreation(last.reqs[j]) /\ last.outs[j].applied
    THEN srvGroups
    ELSE last.before.groups

\* the groups named "NetBox Import" that the lookup at k was answered with
NamedAt(k) ==
    IF last.outs[k].kind # "ok" THEN {}
    ELSE {g \in 1..Len(GroupsAt(k)) : SameName(GroupsAt(k)[g].name, group_name)}

\* the parent id the export is to use after the lookup of the group at k:
\* the id of the first group of the name, 1 when the lookup gave none
ParentAfter(k) ==
    IF NamedAt(k) = {} THEN <<"1">>
    ELSE IntToStr(GroupsAt(k)[Least(NamedAt(k))].objid)

\* C29: every device-creation request of an export names as parent the
\* group "NetBox Import" that the last lookup of the group before it found,
\* be it an old group or the one the export created, and 1 when that lookup
\* failed or found none; it asks for auto-discovery (discoverytype_ 1, with
\* the template 1) and for a discovery that runs at once
\* (discoveryschedule_ 0), and carries the name and the host of the export.
C29_CreationParameters ==
    last.op = "export" =>
        \A i \in 1..Len(last.reqs) :
            IsDeviceCreation(last.reqs[i]) =>
                /\ i > 1
                /\ \E k \in 1..(i - 1) : IsGroupQuery(last.reqs[k])
                /\ last.reqs[i].params.id = ParentAfter(GroupLookupBefore(i))
                /\ last.reqs[i].params.discoverytype_ = <<"1">>
                /\ last.reqs[i].params.devicetemplate_ = <<"1">>
                /\ last.reqs[i].params.discoveryschedule_ = <<"0">>
                /\ last.reqs[i].params.name_ = last.args[1]
                /\ last.reqs[i].params.host_ = last.args[2]

\* the export created the group and then the device under it
C29_Witness ==
    /\ last.op = "export"
    /\ last.before.groups = <<>>
    /\ Len(srvGroups) = 1
    /\ DeviceCreation(last) # 0
    /\ last.reqs[DeviceCreation(last)].params.id = IntToStr(srvGroups[1].objid)
    /\ last.reqs[DeviceCreation(last)].params.discoverytype_ = <<"1">>

====
